---- MODULE Spec2Model ----
(***************************************************************************)
(* on_demand: the cells and accessor macros that generate_on_demand_macro! *)
(* expands to (src/src/lib.rs).  Every cell is a local                     *)
(*     RefCell<Option<Inner>>                                              *)
(* and the three accessors on_demand_get_<var>, on_demand_get_<var>_mut    *)
(* and on_demand_into_<var> are expanded in line, so that a getter that    *)
(* names another cell's accessor nests that accessor's statements inside   *)
(* its own.  The model keeps one frame per accessor in progress and takes  *)
(* one step per statement of the expansion.                                *)
(***************************************************************************)
EXTENDS Integers, Sequences, FiniteSets, TLC

\* ---------------------------------------------------------------- bounds
\* A getter's own expression gives its documented value plus 0..MaxVar (it
\* may read a stream, so two evaluations need not agree).
MaxVar == 1
\* Guards (Ref and RefMut, on any cells) the caller keeps alive at a time.
MaxGuards == 2
\* Accessor expansions nested in one another (a getter that reaches itself
\* through an indirection stops re-entering at this depth).
MaxDepth == 4
\* Getter evaluations ended by a panic after which the caller still goes on.
MaxAborts == 1

Cells == {"a", "b", "c"}
\* The doc example's getters: a is 1, b is 2 + a, c is 3 + a + b.
TBase(c) == CASE c = "a" -> 1 [] c = "b" -> 2 [] c = "c" -> 3
TVals(c) == {TBase(c) + k : k \in 0..MaxVar}
\* The value a seeded cell starts with, and the value the caller writes
\* through a RefMut.
SeedVal == 7
MutVal == 0

\* Option<Inner>
None == <<>>
Some(v) == <<v>>
IsSome(o) == o # None
Unwrap(o) == o[1]

VARIABLES
    slot,       \* [Cells -> Option]: the RefCell's content
    shared,     \* [Cells -> Nat]: live Ref guards (RefCell's borrow count)
    excl,       \* [Cells -> Nat]: live RefMut guards (RefCell's writing count)
    moved,      \* [Cells -> BOOLEAN]: the cell was moved by into_inner
    deps,       \* [Cells -> Seq(Cells)]: the cells each getter reads with get
    stack,      \* accessor expansions in progress, outermost first
    runs,       \* [Cells -> Nat]: evaluations of the cell's getter begun
    done,       \* [Cells -> Nat]: evaluations of the cell's getter that gave a value
    aborted,    \* [Cells -> Nat]: evaluations of the cell's getter ended by a panic
    seed,       \* [Cells -> Option]: the default value the cell was built with
    pre,        \* the cells as they were when the caller's accessor began
    last        \* what the step just taken handed back to the caller

vars == <<slot, shared, excl, moved, deps, stack,
          runs, done, aborted, seed, pre, last>>

\* op: the caller's accessor; status: "Ok" or "BorrowConflict"; val: the
\* value the guard views or the value moved out; t: what the getter's own
\* expression gave if this accessor evaluated it (else 0); owns: the same for
\* every getter evaluated within this accessor; at: the cell whose borrow
\* failed.
NoOwns == [x \in Cells |-> 0]
NoRet == [op |-> "none", cell |-> "a", status |-> "none", val |-> 0, t |-> 0,
          owns |-> NoOwns, at |-> "a"]
Ret(op, c, st, v, owns, at) ==
    [op |-> op, cell |-> c, status |-> st, val |-> v, t |-> owns[c],
     owns |-> owns, at |-> at]
NoPre == [on |-> FALSE]
Snapshot == [on |-> TRUE, slot |-> slot, shared |-> shared, excl |-> excl,
             runs |-> runs, moved |-> moved]

Frame(c, mode, pc) ==
    [cell |-> c, mode |-> mode, pc |-> pc, i |-> 1, acc |-> 0, held |-> <<>>,
     val |-> 0, owns |-> NoOwns]

\* Variants of the tail expression that leave out what was read, or the
\* getter's own value.
GetterValueOwnOnly(t, acc) == t
GetterValueReadsOnly(t, acc) == acc

\* A getter block's tail expression, as in `3 + *a_data + *b_data`: its own
\* value t plus acc, the values read through the guards it holds.
GetterValue(t, acc) == t + acc

\* ------------------------------------------------------------ RefCell
\* (bug: borrow() replaced by borrow_mut(), which any live guard refuses)
CanBorrowOnlyUnborrowed(c) == excl[c] = 0 /\ shared[c] = 0
\* (bug: the borrow state never consulted)
CanBorrowAlways(c) == TRUE
\* RefCell::borrow panics iff a RefMut is live.
CanBorrow(c) == excl[c] = 0
\* (bug: borrow_mut() replaced by borrow(), which live Ref guards do not refuse)
CanBorrowMutDespiteShared(c) == excl[c] = 0
\* RefCell::borrow_mut panics iff any guard is live.
CanBorrowMut(c) == excl[c] = 0 /\ shared[c] = 0
\* (bug: the is_some test dropped, the getter evaluated on every access)
NeedsFillAlways(c) == TRUE
\* (bug: a value written through a RefMut is taken for a missing one)
NeedsFillIfMutated(c) == slot[c] \in {None, Some(MutVal)}
\* `let is_some = $var.borrow().is_some(); if !is_some { ... }`
NeedsFill(c) == ~IsSome(slot[c])
\* (bug: the cell moved out although guards borrow it)
BorrowedNever(c) == FALSE
\* A guard is live on the cell.
Borrowed(c) == shared[c] > 0 \/ excl[c] > 0

RECURSIVE SumOver(_, _)
SumOver(f, S) ==
    IF S = {} THEN 0
    ELSE LET x == CHOOSE y \in S : TRUE IN f[x] + SumOver(f, S \ {x})
\* The guards alive; between accessors all of them are the caller's.
LiveGuards == SumOver(shared, Cells) + SumOver(excl, Cells)

\* The doc example's and the test's wiring: b reads a, c reads a then b.
ChainDeps == [c \in Cells |-> CASE c = "a" -> <<>>
                                [] c = "b" -> <<"a">>
                                [] c = "c" -> <<"a", "b">>]

\* The cells an accessor's expansion names: its own, and those its getter
\* block's nested accessors name.
RECURSIVE NamedWithin(_, _)
NamedWithin(c, fuel) ==
    {c} \cup IF fuel = 0 THEN {}
             ELSE UNION {NamedWithin(deps[c][n], fuel - 1) : n \in 1..Len(deps[c])}
Named(c) == NamedWithin(c, Cardinality(Cells))
\* (bug: a moved cell usable again)
UsesMovedNever(c) == FALSE
\* The expansion uses a cell that into_inner has moved: such an accessor does
\* not compile, so no caller makes it.
UsesMoved(c) == \E x \in Named(c) : moved[x]

\* A getter reaches its own cell again only through a closure whose body
\* holds the accessor; the closure borrows every cell that accessor's
\* expansion names, for as long as a getter can call it.  `$var.into_inner()`
\* on such a cell is a move out of a borrowed local: it does not compile.
OnCycle(c) == \E n \in 1..Len(deps[c]) : c \in Named(deps[c][n])
Captured(c) == \E x \in Cells : OnCycle(x) /\ c \in Named(x)

\* (bug: the default value dropped, RefCell::new(None))
InitCellsIgnoringDefault ==
    /\ slot = [c \in Cells |-> None]
    /\ shared = [c \in Cells |-> 0]
    /\ excl = [c \in Cells |-> 0]
    /\ moved = [c \in Cells |-> FALSE]
    /\ stack = <<>>
    /\ runs = [c \in Cells |-> 0]
    /\ done = [c \in Cells |-> 0]
    /\ aborted = [c \in Cells |-> 0]
    /\ pre = NoPre
    /\ last = NoRet

\* `let $var: RefCell<Option<$Inner>> = RefCell::new($default_value);`
InitCells ==
    /\ slot = seed
    /\ shared = [c \in Cells |-> 0]
    /\ excl = [c \in Cells |-> 0]
    /\ moved = [c \in Cells |-> FALSE]
    /\ stack = <<>>
    /\ runs = [c \in Cells |-> 0]
    /\ done = [c \in Cells |-> 0]
    /\ aborted = [c \in Cells |-> 0]
    /\ pre = NoPre
    /\ last = NoRet

\* generate_on_demand_macro!(<var>: Inner = <default>, <getter>) for a, b, c.
Init ==
    /\ seed \in [Cells -> {None, Some(SeedVal)}]
    /\ deps = ChainDeps
    /\ InitCells

AtCaller == stack = <<>> /\ SumOver(aborted, Cells) <= MaxAborts
Top == stack[Len(stack)]
Running == stack # <<>>
SetTop(stk, f) == [stk EXCEPT ![Len(stk)] = f]
Pop == SubSeq(stack, 1, Len(stack) - 1)

\* (bug: the getter block's guards leak)
DropNone(sh, held) == sh

\* Dropping the Ref guards a getter block holds (its let bindings go out of
\* scope at the end of the block, or while the stack unwinds).
RECURSIVE DropAll(_, _)
DropAll(sh, held) ==
    IF held = <<>> THEN sh
    ELSE DropAll([sh EXCEPT ![Head(held)] = @ - 1], Tail(held))

\* The guards held by the getter blocks of the accessors in progress.
RECURSIVE HeldBy(_)
HeldBy(stk) == IF stk = <<>> THEN <<>> ELSE stk[1].held \o HeldBy(Tail(stk))

\* The cells whose getter is being evaluated in stk.
Filling(stk) == {stk[n].cell : n \in {n \in 1..Len(stk) : stk[n].pc = "getter"}}

\* (bug: the refused borrow empties the cell)
PanicClearingSlot(stk, c) ==
    /\ stack' = <<>>
    /\ shared' = DropAll(shared, HeldBy(stk))
    /\ aborted' = [x \in Cells |-> aborted[x] + IF x \in Filling(stk) THEN 1 ELSE 0]
    /\ last' = Ret(stk[1].mode, stk[1].cell, "BorrowConflict", 0, NoOwns, c)
    /\ slot' = [slot EXCEPT ![c] = None]
    /\ UNCHANGED <<excl, moved, deps, runs, done, seed>>

\* (bug: unwinding leaves the getter blocks' guards alive)
PanicKeepingGuards(stk, c) ==
    /\ stack' = <<>>
    /\ aborted' = [x \in Cells |-> aborted[x] + IF x \in Filling(stk) THEN 1 ELSE 0]
    /\ last' = Ret(stk[1].mode, stk[1].cell, "BorrowConflict", 0, NoOwns, c)
    /\ UNCHANGED <<slot, shared, excl, moved, deps, runs, done, seed>>

\* borrow() or borrow_mut() on cell c panics in the innermost accessor of
\* stk.  The panic changes no cell; unwinding ends every accessor in
\* progress and drops the guards their getter blocks hold.  The caller
\* catches it and goes on.
Panic(stk, c) ==
    /\ stack' = <<>>
    /\ shared' = DropAll(shared, HeldBy(stk))
    /\ aborted' = [x \in Cells |-> aborted[x] + IF x \in Filling(stk) THEN 1 ELSE 0]
    /\ last' = Ret(stk[1].mode, stk[1].cell, "BorrowConflict", 0, NoOwns, c)
    /\ UNCHANGED <<slot, excl, moved, deps, runs, done, seed>>

\* An accessor's first statement,
\*     let is_some = $var.borrow().is_some(); if !is_some {
\* in the innermost accessor of stk.  The temporary Ref is dropped at the end
\* of the statement; entering the branch starts the evaluation of the
\* right-hand side Some({$getter}).
Check(stk) ==
    LET c == stk[Len(stk)].cell IN
    IF ~CanBorrow(c)
    THEN Panic(stk, c)
    ELSE /\ IF NeedsFill(c)
            THEN /\ stack' = SetTop(stk, [stk[Len(stk)] EXCEPT !.pc = "getter"])
                 /\ runs' = [runs EXCEPT ![c] = @ + 1]
            ELSE /\ stack' = SetTop(stk, [stk[Len(stk)] EXCEPT !.pc = "ref"])
                 /\ UNCHANGED runs
         /\ last' = NoRet
         /\ UNCHANGED <<slot, shared, excl, moved, deps, done, aborted, seed>>

\* An accessor nested in a getter block hands its Ref to that block: the
\* block binds it (let a_data = ...) and reads the value through it.
HandToParent(c) ==
    LET par == stack[Len(stack) - 1] IN
    /\ stack' = [Pop EXCEPT ![Len(stack) - 1] =
                    [par EXCEPT !.held = Append(@, c),
                                !.acc = @ + Unwrap(slot[c]),
                                !.owns = [x \in Cells |-> IF Top.owns[x] # 0
                                                          THEN Top.owns[x] ELSE @[x]],
                                !.i = @ + 1]]
    /\ last' = NoRet

\* The caller writes on_demand_get_<c>!().
CallGet(c) ==
    /\ AtCaller
    /\ LiveGuards < MaxGuards
    /\ ~UsesMoved(c)
    /\ pre' = Snapshot
    /\ Check(<<Frame(c, "get", "check")>>)

\* The caller writes on_demand_get_<c>_mut!().
CallGetMut(c) ==
    /\ AtCaller
    /\ LiveGuards < MaxGuards
    /\ ~UsesMoved(c)
    /\ pre' = Snapshot
    /\ Check(<<Frame(c, "get_mut", "check")>>)

\* (bug: the getter block goes on without the nested accessor having run)
GetterStepSkipping ==
    /\ Running
    /\ Top.pc = "getter"
    /\ Top.i <= Len(deps[Top.cell])
    /\ stack' = SetTop(stack, [Top EXCEPT !.i = @ + 1])
    /\ last' = NoRet
    /\ UNCHANGED <<slot, shared, excl, moved, deps, runs, done, aborted, seed, pre>>

\* The getter block's next `let x_data = on_demand_get_<x>!();`: the nested
\* accessor is expanded in place.  A getter that reaches its own cell again
\* (only possible through an indirection) stops doing so at MaxDepth.
GetterStep ==
    /\ Running
    /\ Top.pc = "getter"
    /\ Top.i <= Len(deps[Top.cell])
    /\ IF Len(stack) < MaxDepth
       THEN Check(Append(stack, Frame(deps[Top.cell][Top.i], "get", "check")))
       ELSE /\ stack' = SetTop(stack, [Top EXCEPT !.i = @ + 1])
            /\ last' = NoRet
            /\ UNCHANGED <<slot, shared, excl, moved, deps, runs, done, aborted, seed>>
    /\ UNCHANGED pre

\* The getter block's tail expression: its own value plus the values read
\* through the guards it holds, which are then dropped.  For get and get_mut
\* the value is what `*($var.borrow_mut()) = Some(..)` is about to assign; for
\* into it is the accessor's result.
GetterReturn(t) ==
    /\ Running
    /\ Top.pc = "getter"
    /\ Top.i > Len(deps[Top.cell])
    /\ t \in TVals(Top.cell)
    /\ LET c == Top.cell
           v == GetterValue(t, Top.acc)
       IN
       /\ shared' = DropAll(shared, Top.held)
       /\ done' = [done EXCEPT ![c] = @ + 1]
       /\ IF Top.mode = "into"
          THEN /\ stack' = Pop
               /\ last' = Ret("into", c, "Ok", v, [Top.owns EXCEPT ![c] = t], c)
          ELSE /\ stack' = SetTop(stack, [Top EXCEPT !.pc = "store", !.val = v,
                                                      !.owns[c] = t, !.held = <<>>])
               /\ last' = NoRet
    /\ UNCHANGED <<slot, excl, moved, deps, runs, aborted, seed, pre>>

\* `*($var.borrow_mut()) = Some(v)`: the assignee expression is evaluated
\* after the value, the temporary RefMut is dropped after the assignment.
Store ==
    /\ Running
    /\ Top.pc = "store"
    /\ LET c == Top.cell IN
       IF ~CanBorrowMut(c)
       THEN Panic(stack, c)
       ELSE /\ slot' = [slot EXCEPT ![c] = Some(Top.val)]
            /\ stack' = SetTop(stack, [Top EXCEPT !.pc = "ref"])
            /\ last' = NoRet
            /\ UNCHANGED <<shared, excl, moved, deps, runs, done, aborted, seed>>
    /\ UNCHANGED pre

\* `Ref::map($var.borrow(), ..)` or `RefMut::map($var.borrow_mut(), ..)`:
\* the accessor's value is the guard.
TakeGuard ==
    /\ Running
    /\ Top.pc = "ref"
    /\ LET c == Top.cell IN
       IF Top.mode = "get"
       THEN IF ~CanBorrow(c)
            THEN Panic(stack, c)
            ELSE /\ shared' = [shared EXCEPT ![c] = @ + 1]
                 /\ IF Len(stack) > 1
                    THEN HandToParent(c)
                    ELSE /\ stack' = <<>>
                         /\ last' = Ret("get", c, "Ok", Unwrap(slot[c]), Top.owns, c)
                 /\ UNCHANGED <<slot, excl, moved, deps, runs, done, aborted, seed>>
       ELSE IF ~CanBorrowMut(c)
            THEN Panic(stack, c)
            ELSE /\ excl' = [excl EXCEPT ![c] = @ + 1]
                 /\ stack' = <<>>
                 /\ last' = Ret("get_mut", c, "Ok", Unwrap(slot[c]), Top.owns, c)
                 /\ UNCHANGED <<slot, shared, moved, deps, runs, done, aborted, seed>>
    /\ UNCHANGED pre

\* (bug: the stored value dropped, the getter evaluated on every into)
CallIntoEvaluating(c) ==
    /\ AtCaller
    /\ ~UsesMoved(c)
    /\ ~Captured(c)
    /\ pre' = Snapshot
    /\ IF Borrowed(c)
       THEN /\ last' = Ret("into", c, "BorrowConflict", 0, NoOwns, c)
            /\ UNCHANGED <<slot, moved, stack, runs>>
       ELSE /\ moved' = [moved EXCEPT ![c] = TRUE]
            /\ slot' = [slot EXCEPT ![c] = None]
            /\ stack' = <<Frame(c, "into", "getter")>>
            /\ runs' = [runs EXCEPT ![c] = @ + 1]
            /\ last' = NoRet
    /\ UNCHANGED <<shared, excl, deps, done, aborted, seed>>

\* The caller writes on_demand_into_<c>!(): `$var.into_inner()` moves the
\* cell.  While a guard borrows the cell the borrow checker refuses the move,
\* which is the accessor's BorrowConflict; otherwise a Some is the result and
\* a None evaluates the getter.
CallInto(c) ==
    /\ AtCaller
    /\ ~UsesMoved(c)
    /\ ~Captured(c)
    /\ pre' = Snapshot
    /\ IF Borrowed(c)
       THEN /\ last' = Ret("into", c, "BorrowConflict", 0, NoOwns, c)
            /\ UNCHANGED <<slot, moved, stack, runs>>
       ELSE /\ moved' = [moved EXCEPT ![c] = TRUE]
            /\ slot' = [slot EXCEPT ![c] = None]
            /\ IF IsSome(slot[c])
               THEN /\ last' = Ret("into", c, "Ok", Unwrap(slot[c]), NoOwns, c)
                    /\ UNCHANGED <<stack, runs>>
               ELSE /\ stack' = <<Frame(c, "into", "getter")>>
                    /\ runs' = [runs EXCEPT ![c] = @ + 1]
                    /\ last' = NoRet
    /\ UNCHANGED <<shared, excl, deps, done, aborted, seed>>

\* (bug: dropping one Ref releases every Ref on the cell)
DropRefAll(c) ==
    /\ AtCaller
    /\ shared[c] > 0
    /\ shared' = [shared EXCEPT ![c] = 0]
    /\ pre' = NoPre
    /\ last' = NoRet
    /\ UNCHANGED <<slot, excl, moved, deps, stack, runs, done, aborted, seed>>

\* The caller drops one of its Ref guards on c.
DropRef(c) ==
    /\ AtCaller
    /\ shared[c] > 0
    /\ shared' = [shared EXCEPT ![c] = @ - 1]
    /\ pre' = NoPre
    /\ last' = NoRet
    /\ UNCHANGED <<slot, excl, moved, deps, stack, runs, done, aborted, seed>>

\* The caller drops its RefMut guard on c.
DropRefMut(c) ==
    /\ AtCaller
    /\ excl[c] > 0
    /\ excl' = [excl EXCEPT ![c] = @ - 1]
    /\ pre' = NoPre
    /\ last' = NoRet
    /\ UNCHANGED <<slot, shared, moved, deps, stack, runs, done, aborted, seed>>

\* (bug: the write through the guard empties the cell)
MutateClears(c) ==
    /\ AtCaller
    /\ excl[c] > 0
    /\ slot' = [slot EXCEPT ![c] = None]
    /\ pre' = NoPre
    /\ last' = NoRet
    /\ UNCHANGED <<shared, excl, moved, deps, stack, runs, done, aborted, seed>>

\* The caller assigns through its RefMut guard on c.
Mutate(c) ==
    /\ AtCaller
    /\ excl[c] > 0
    /\ slot' = [slot EXCEPT ![c] = Some(MutVal)]
    /\ pre' = NoPre
    /\ last' = NoRet
    /\ UNCHANGED <<shared, excl, moved, deps, stack, runs, done, aborted, seed>>

Next ==
    \/ \E c \in Cells : CallGet(c)
    \/ \E c \in Cells : CallGetMut(c)
    \/ \E c \in Cells : CallInto(c)
    \/ GetterStep
    \/ \E t \in 1..(3 + MaxVar) : GetterReturn(t)
    \/ Store
    \/ TakeGuard
    \/ \E c \in Cells : DropRef(c)
    \/ \E c \in Cells : DropRefMut(c)
    \/ \E c \in Cells : Mutate(c)

Spec == Init /\ [][Next]_vars

\* Getters that reach their own cell again.  The accessors being macros, a
\* getter cannot name its own cell's accessor (the expansion would not end);
\* it can call a closure, set later, whose body does.  SelfDeps: a's getter
\* reads a.  CycleDeps: a's getter reads b, whose getter reads a.
SelfDeps == [c \in Cells |-> CASE c = "a" -> <<"a">>
                               [] c = "b" -> <<"a">>
                               [] c = "c" -> <<"a", "b">>]
CycleDeps == [c \in Cells |-> CASE c = "a" -> <<"b">>
                                [] c = "b" -> <<"a">>
                                [] c = "c" -> <<>>]
InitReentrant ==
    /\ seed = [c \in Cells |-> None]
    /\ deps \in {SelfDeps, CycleDeps}
    /\ InitCells

SpecReentrant == InitReentrant /\ [][Next]_vars

\* ------------------------------------------------------------ claims
\* The caller's accessor on cell c has just returned.
Returned(op, c) == stack = <<>> /\ pre.on /\ last.op = op /\ last.cell = c
ReturnedOk(op, c) == Returned(op, c) /\ last.status = "Ok"
Conflict(op, c) == Returned(op, c) /\ last.status = "BorrowConflict"

\* C1 as stated: whatever accesses are made, in whichever modes, a cell's
\* getter is evaluated at most once over the cell's lifetime.
C1_EvaluatedAtMostOnce == \A c \in Cells : runs[c] <= 1

\* C1, amended: a cell's getter runs to completion at most once, and every
\* evaluation of it but one was ended by a panic raised inside it.
C1_CompletedAtMostOnce ==
    \A c \in Cells : done[c] <= 1 /\ runs[c] - aborted[c] <= 1

\* C1 witness: a getter ended by a panic, evaluated again to completion, and
\* its cell then read twice.
C1_Witness ==
    \E c \in Cells : /\ aborted[c] = 1 /\ runs[c] = 2 /\ done[c] = 1
                     /\ shared[c] = 2 /\ stack = <<>>

\* The sum of the values of the cells c's getter reads.
RECURSIVE SumSlots(_)
SumSlots(ds) == IF ds = <<>> THEN 0 ELSE Unwrap(slot[Head(ds)]) + SumSlots(Tail(ds))

\* C2: a get on an Empty cell evaluates the getter exactly once, stores its
\* result and returns a Ref that views it; a get on a Filled cell evaluates
\* nothing and returns a Ref that views the stored value, whatever the getter
\* would give now.
C2_MemoizedGet ==
    \A c \in Cells :
        ReturnedOk("get", c) =>
            /\ IsSome(slot[c])
            /\ last.val = Unwrap(slot[c])
            /\ shared[c] = pre.shared[c] + 1
            /\ IF IsSome(pre.slot[c])
               THEN /\ runs[c] = pre.runs[c]
                    /\ slot[c] = pre.slot[c]
                    /\ last.t = 0
               ELSE /\ runs[c] = pre.runs[c] + 1
                    /\ last.t \in TVals(c)
                    /\ last.val = last.t + SumSlots(deps[c])

\* C2 witness: the second of two consecutive gets of a cell the first one
\* filled, both guards alive.
C2_Witness ==
    \E c \in Cells : /\ ReturnedOk("get", c) /\ IsSome(pre.slot[c])
                     /\ pre.shared[c] = 1 /\ runs[c] = 1 /\ done[c] = 1
                     /\ seed[c] = None

\* C3: a cell built with Some(v) never has its getter evaluated, and it holds
\* (and every accessor gives) v or what the caller wrote through a RefMut.
C3_SeedBypass ==
    \A c \in Cells :
        IsSome(seed[c]) =>
            /\ runs[c] = 0
            /\ ~moved[c] => slot[c] \in {seed[c], Some(MutVal)}
            /\ (last.cell = c /\ last.status = "Ok") =>
                   /\ last.val \in {Unwrap(seed[c]), MutVal}
                   /\ last.t = 0

\* C3 witness: a seeded cell read by another cell's getter, written through
\* a RefMut and then moved out.
C3_Witness ==
    /\ IsSome(seed["a"]) /\ done["b"] = 1
    /\ ReturnedOk("into", "a") /\ last.val = MutVal

\* C4: a get of a cell with a live RefMut, and a get_mut of a cell with any
\* live guard, end in a BorrowConflict on that cell.
C4_ConflictDetected ==
    \A c \in Cells :
        /\ (Returned("get", c) /\ pre.excl[c] > 0) =>
               last.status = "BorrowConflict" /\ last.at = c
        /\ (Returned("get_mut", c) /\ (pre.excl[c] > 0 \/ pre.shared[c] > 0)) =>
               last.status = "BorrowConflict" /\ last.at = c
        /\ (stack # <<>> /\ stack[1].cell = c /\ stack[1].mode = "get") =>
               pre.excl[c] = 0
        /\ (stack # <<>> /\ stack[1].cell = c /\ stack[1].mode = "get_mut"
              /\ stack[1].pc # "ref") => (pre.excl[c] = 0 /\ pre.shared[c] = 0)

\* C4 witness: a get_mut refused because of a live Ref guard.
C4_Witness ==
    \E c \in Cells : Conflict("get_mut", c) /\ pre.shared[c] = 1 /\ last.at = c

C6_BorrowExclusion ==
    \A c \in Cells :
        /\ excl[c] <= 1
        /\ excl[c] > 0 => shared[c] = 0
        /\ (stack # <<>> /\ stack[1].mode = "into" /\ stack[1].cell = c) =>
               (shared[c] = 0 /\ excl[c] = 0)

\* C6 witness: a RefMut alive on a cell and a get of that cell just refused.
C6_Witness ==
    \E c \in Cells : excl[c] = 1 /\ shared[c] = 0 /\ Conflict("get", c)

\* C7: a get of a cell with live Ref guards (the caller's or an enclosing
\* getter's) and no RefMut succeeds, evaluates nothing and views the value the
\* other guards view; a get conflicts only with a RefMut.
C7_SharedCoexist ==
    /\ \A c \in Cells :
          (Returned("get", c) /\ pre.shared[c] >= 1) =>
              /\ last.status = "Ok"
              /\ runs = pre.runs
              /\ slot = pre.slot
              /\ last.val = Unwrap(pre.slot[c])
              /\ shared[c] = pre.shared[c] + 1
    /\ \A n \in 1..Len(stack) :
          (stack[n].mode = "get" /\ shared[stack[n].cell] >= 1) =>
              stack[n].pc = "ref"
    /\ (last.status = "BorrowConflict" /\ (last.op = "get" \/ last.at # last.cell)) =>
          excl[last.at] > 0

\* C7 witness: a get nested in c's getter returns a second Ref on a cell that
\* getter already holds a Ref on (b's getter reading a inside c's).
C7_Witness ==
    /\ Len(stack) = 2 /\ stack[1].cell = "c" /\ stack[1].held = <<"a">>
    /\ stack[2].cell = "b" /\ stack[2].held = <<"a">>
    /\ shared["a"] = 3

\* The frames from position n of the stack outwards to the innermost one.
Inner(n) == {k \in 1..Len(stack) : k >= n}
HoldsRef(f, c) == \E h \in 1..Len(f.held) : f.held[h] = c

\* C8 as stated: while a cell's getter is being evaluated, an access to that
\* cell made from inside the evaluation (by the getter itself or by a getter
\* it reaches) fails with a BorrowConflict: it neither starts the cell's
\* getter again nor hands back a Ref on the cell.
C8_ReentrancyConflicts ==
    \A n \in 1..Len(stack) :
        stack[n].pc = "getter" =>
            \A k \in Inner(n) :
                /\ k > n => stack[k].cell # stack[n].cell
                /\ ~HoldsRef(stack[k], stack[n].cell)

\* The caller's get of c has returned, having started from three cells built
\* with None that nothing had accessed yet.
ChainAccessed ==
    /\ Returned("get", "c")
    /\ seed = [x \in Cells |-> None]
    /\ pre.slot = [x \in Cells |-> None]
    /\ pre.runs = [x \in Cells |-> 0]
    /\ pre.shared = [x \in Cells |-> 0]
    /\ pre.excl = [x \in Cells |-> 0]
DocOwns == [x \in Cells |-> TBase(x)]

C10_ChainAcrossModes ==
    /\ (Returned("get", "a") /\ pre.slot["a"] = None /\ pre.excl["a"] = 0) =>
          /\ last.status = "Ok"
          /\ runs = [pre.runs EXCEPT !["a"] = @ + 1]
          /\ last.owns["a"] \in TVals("a")
          /\ last.val = last.owns["a"]
          /\ slot["a"] = Some(last.val)
          /\ shared["a"] = pre.shared["a"] + 1
    /\ (Returned("get_mut", "b") /\ IsSome(pre.slot["a"]) /\ pre.excl["a"] = 0
          /\ pre.slot["b"] = None /\ pre.shared["b"] = 0 /\ pre.excl["b"] = 0) =>
          /\ last.status = "Ok"
          /\ runs = [pre.runs EXCEPT !["b"] = @ + 1]
          /\ last.owns["b"] \in TVals("b") /\ last.owns["a"] = 0
          /\ last.val = last.owns["b"] + Unwrap(pre.slot["a"])
          /\ slot = [pre.slot EXCEPT !["b"] = Some(last.val)]
          /\ shared = pre.shared /\ excl["b"] = 1
    /\ (Returned("into", "c") /\ IsSome(pre.slot["a"]) /\ pre.excl["a"] = 0
          /\ IsSome(pre.slot["b"]) /\ pre.excl["b"] = 0
          /\ pre.slot["c"] = None /\ pre.shared["c"] = 0 /\ pre.excl["c"] = 0) =>
          /\ last.status = "Ok"
          /\ runs = [pre.runs EXCEPT !["c"] = @ + 1]
          /\ last.owns["c"] \in TVals("c")
          /\ last.owns["a"] = 0 /\ last.owns["b"] = 0
          /\ last.val = last.owns["c"] + Unwrap(pre.slot["a"]) + Unwrap(pre.slot["b"])
          /\ slot = pre.slot /\ moved["c"]
          /\ shared = pre.shared /\ excl = pre.excl

\* C10 witness: c moved out after a was read (its Ref still alive) and b was
\* filled, every getter evaluated once and none ended by a panic.
C10_Witness ==
    /\ ReturnedOk("into", "c") /\ shared["a"] = 1 /\ shared["b"] = 0
    /\ excl = [x \in Cells |-> 0]
    /\ seed = [x \in Cells |-> None]
    /\ runs = [x \in Cells |-> 1] /\ aborted = [x \in Cells |-> 0]
    /\ \E tB \in TVals("b") : slot["b"] = Some(tB + Unwrap(slot["a"]))
    /\ last.val = last.owns["c"] + Unwrap(slot["a"]) + Unwrap(slot["b"])

\* C11: a getter ended by a panic (raised by an access it makes to another
\* cell) leaves its cell Empty and every cell's guards as they were before the
\* call: the panic reaches the caller; an access to a cell left Empty that way
\* evaluates the getter again.
C11_FailedFillRetryable ==
    \A c \in Cells :
        /\ ((Returned("get", c) \/ Returned("get_mut", c))
              /\ last.status = "BorrowConflict" /\ runs[c] > pre.runs[c]) =>
               /\ last.at # c
               /\ aborted[c] >= 1
               /\ slot[c] = None
               /\ runs[c] = pre.runs[c] + 1
               /\ shared = pre.shared /\ excl = pre.excl
               /\ \A x \in Cells : slot[x] # pre.slot[x] =>
                      (pre.slot[x] = None /\ IsSome(slot[x]) /\ done[x] >= 1)
        /\ ((Returned("get", c) \/ Returned("get_mut", c))
              /\ aborted[c] >= 1 /\ pre.slot[c] = None) =>
               /\ runs[c] = pre.runs[c] + 1
               /\ last.status = "Ok" => (IsSome(slot[c]) /\ done[c] = 1)
               /\ last.status = "BorrowConflict" => slot[c] = None
        /\ (stack = <<>> /\ aborted[c] >= 1 /\ done[c] = 0 /\ ~moved[c]) =>
               slot[c] = None

\* C11 witness: c's getter, holding a Ref on a, was ended by the conflict on
\* b (a RefMut of the caller); after the caller dropped it a get_mut of c
\* evaluated the getter again and succeeded.
C11_Witness ==
    /\ ReturnedOk("get_mut", "c") /\ pre.slot["c"] = None
    /\ aborted["c"] = 1 /\ runs["c"] = 2 /\ done["c"] = 1
    /\ excl["c"] = 1 /\ shared["a"] = 0

\* C12: a value written through a RefMut stays in the cell when the guard is
\* dropped, and every later get or get_mut of the cell that is not refused
\* returns it without evaluating the getter.  (MutVal is a value no getter
\* and no default gives, so a slot holding it was written through a RefMut.)
C12_MutationStays ==
    \A c \in Cells :
        ((Returned("get", c) \/ Returned("get_mut", c))
              /\ pre.slot[c] = Some(MutVal) /\ pre.excl[c] = 0
              /\ (last.op = "get" \/ pre.shared[c] = 0)) =>
            /\ last.status = "Ok"
            /\ last.val = MutVal
            /\ last.owns = NoOwns
            /\ runs = pre.runs
            /\ slot = pre.slot

\* C12 witness: a cell its getter filled, written through a RefMut that was
\* then dropped, and accessed again by a get_mut.
C12_Witness ==
    \E c \in Cells :
        /\ ReturnedOk("get_mut", c) /\ pre.slot[c] = Some(MutVal)
        /\ pre.excl[c] = 0 /\ seed[c] = None /\ done[c] = 1 /\ runs[c] = 1

\* C13: an into of an Empty cell evaluates the getter and returns its value;
\* the value is never stored in the cell.  An into of a Filled cell returns
\* the stored value, as last written, and evaluates nothing.
C13_IntoResult ==
    /\ \A c \in Cells :
          (Returned("into", c) /\ pre.shared[c] = 0 /\ pre.excl[c] = 0) =>
              /\ moved[c] /\ slot[c] = None
              /\ \A x \in Cells \ {c} : moved[x] = pre.moved[x]
              /\ IF IsSome(pre.slot[c])
                 THEN /\ last.status = "Ok"
                      /\ last.val = Unwrap(pre.slot[c])
                      /\ last.owns = NoOwns
                      /\ runs = pre.runs
                 ELSE /\ runs[c] = pre.runs[c] + 1
                      /\ last.status = "Ok" =>
                            /\ last.owns[c] \in TVals(c)
                            /\ last.val = last.owns[c] + SumSlots(deps[c])
                      /\ last.status = "BorrowConflict" => last.at # c
    /\ (stack # <<>> /\ stack[1].mode = "into") =>
          /\ stack[1].pc = "getter"
          /\ slot[stack[1].cell] = None /\ pre.slot[stack[1].cell] = None

\* C13 witness: an into of a cell never accessed before, whose getter read
\* two other cells; the cell holds nothing afterwards.
C13_Witness ==
    /\ ReturnedOk("into", "c") /\ pre.runs["c"] = 0 /\ runs["c"] = 1
    /\ slot["c"] = None /\ last.val = last.owns["c"] + SumSlots(deps["c"])
    /\ last.owns["a"] # 0 /\ last.owns["b"] # 0

\* C14: a Filled cell stays Filled through every step (get, get_mut, a write
\* through a guard, a guard's release, a panic) but the into that moves it
\* out, and a cell moved out stays moved out.
C14_FilledUntilMoved ==
    [][\A c \in Cells :
          /\ (IsSome(slot[c]) /\ ~IsSome(slot'[c])) =>
                 (~moved[c] /\ moved'[c] /\ stack = <<>>
                    /\ last'.op = "into" /\ last'.cell = c /\ last'.status = "Ok")
          /\ moved[c] => (moved'[c] /\ slot'[c] = None)]_vars

\* C14 witness: a cell its getter filled, written through a RefMut since
\* dropped, with two Refs taken on it afterwards, still Filled.
C14_Witness ==
    \E c \in Cells :
        /\ seed[c] = None /\ slot[c] = Some(MutVal) /\ shared[c] = 2
        /\ stack = <<>> /\ done[c] = 1

\* C15: once an into has moved a cell out, the cell stays moved out and holds
\* nothing, no guard is or comes alive on it, and no get, get_mut or into
\* runs on it or returns from it: the only accessor ever seen on a moved cell
\* is the into that moved it.
C15_MovedIsTerminal ==
    /\ \A c \in Cells :
          moved[c] =>
              /\ slot[c] = None /\ shared[c] = 0 /\ excl[c] = 0
              /\ \A n \in 1..Len(stack) :
                    stack[n].cell = c => (n = 1 /\ stack[n].mode = "into")
              /\ (pre.on /\ last.op # "none" /\ last.cell = c) =>
                    (last.op = "into" /\ ~pre.moved[c])
    /\ \A c \in Cells : (pre.on /\ pre.moved[c]) =>
          (moved[c] /\ (stack # <<>> => stack[1].cell # c)
             /\ (last.op # "none" => last.cell # c))

\* C15 witness: c moved out by an into that evaluated its getter, then
\* another cell read and a second cell moved out.
C15_Witness ==
    /\ moved["c"] /\ done["c"] = 1 /\ pre.on /\ pre.moved["c"]
    /\ ReturnedOk("into", "b") /\ shared["a"] = 1

\* A step of the caller that is not an accessor: a guard dropped or a write
\* through a RefMut.
CallerStep == stack = <<>> /\ stack' = <<>> /\ pre' = NoPre

\* C16: dropping a Ref lowers its cell's shared count by exactly one and
\* dropping the RefMut clears the exclusive borrow, nothing else changing; on
\* a cell with no guard left (Filled, since it had guards) a get, a get_mut
\* and an into succeed.
C16_ReleaseUnlocks ==
    /\ [][CallerStep =>
            /\ \A c \in Cells :
                  /\ shared'[c] # shared[c] =>
                        /\ shared'[c] = shared[c] - 1
                        /\ \A x \in Cells \ {c} : shared'[x] = shared[x]
                        /\ excl' = excl /\ slot' = slot
                  /\ excl'[c] # excl[c] =>
                        /\ excl[c] = 1 /\ excl'[c] = 0
                        /\ \A x \in Cells \ {c} : excl'[x] = excl[x]
                        /\ shared' = shared /\ slot' = slot
            /\ moved' = moved /\ runs' = runs]_vars
    /\ [](\A c \in Cells :
            (pre.on /\ last.op # "none" /\ last.cell = c /\ stack = <<>>
               /\ IsSome(pre.slot[c]) /\ pre.shared[c] = 0 /\ pre.excl[c] = 0) =>
                /\ last.status = "Ok"
                /\ last.val = Unwrap(pre.slot[c])
                /\ runs = pre.runs)

\* C16 witness: an into that succeeds on a cell holding a value written
\* through a RefMut: the RefMut has been dropped.
C16_Witness ==
    \E c \in Cells :
        /\ ReturnedOk("into", c) /\ last.val = MutVal /\ seed[c] = None
        /\ pre.shared[c] = 0 /\ pre.excl[c] = 0 /\ pre.runs[c] = 1

\* The cells the getter of frame f has read so far.
ReadSoFar(f) ==
    {deps[f.cell][j] : j \in {j \in 1..Len(deps[f.cell]) : j < f.i \/ f.pc # "getter"}}

\* C17 as stated: in every state in which a cell has been filled by its
\* getter, the cells that getter reads are Filled.
C17_ReadCellsFilled ==
    \A c \in Cells :
        (done[c] >= 1 /\ IsSome(slot[c])) =>
            \A n \in 1..Len(deps[c]) : IsSome(slot[deps[c][n]])

\* C17, amended: a getter goes on, and its value is stored, only after every
\* cell it has read is Filled, a cell built with None by its own getter run to
\* completion; in every state in which a cell's getter has completed, each
\* cell it reads is Filled or has since been moved out by an into.
C17_ReadCellsFilledOrMoved ==
    /\ \A n \in 1..Len(stack) :
          stack[n].pc \in {"getter", "store"} =>
              \A d \in ReadSoFar(stack[n]) :
                  /\ IsSome(slot[d])
                  /\ seed[d] = None => done[d] >= 1
                  /\ HoldsRef(stack[n], d) \/ stack[n].pc # "getter"
    /\ \A c \in Cells :
          done[c] >= 1 =>
              \A n \in 1..Len(deps[c]) :
                  LET d == deps[c][n] IN
                  /\ IsSome(slot[d]) \/ moved[d]
                  /\ seed[d] = None => done[d] >= 1

\* C17 witness: b filled by its getter, which evaluated a's getter first; a
\* then moved out while b stays Filled.
C17_Witness ==
    /\ done["b"] = 1 /\ IsSome(slot["b"]) /\ done["a"] = 1
    /\ ReturnedOk("into", "a") /\ moved["a"] /\ runs["a"] = 1
    /\ Unwrap(slot["b"]) = last.val + 2

\* C18: a get, get_mut or into of a cell refused because of a guard alive on
\* that cell evaluates no getter and leaves every cell's value and guards
\* (and so that cell's) exactly as they were before the call.
C18_ConflictChangesNothing ==
    \A c \in Cells :
        ((Conflict("get", c) \/ Conflict("get_mut", c) \/ Conflict("into", c))
           /\ last.at = c) =>
            /\ pre.shared[c] > 0 \/ pre.excl[c] > 0
            /\ runs = pre.runs
            /\ slot = pre.slot
            /\ shared = pre.shared
            /\ excl = pre.excl
            /\ moved = pre.moved

\* C18 witness: a get refused by the caller's RefMut on a cell holding the
\* value written through that RefMut.
C18_Witness ==
    \E c \in Cells :
        /\ Conflict("get", c) /\ last.at = c /\ excl[c] = 1
        /\ slot[c] = Some(MutVal) /\ runs[c] = 1

\* What an accessor that succeeds adds to its cell's borrows.
GuardGiven(op) == [sh |-> IF op = "get" THEN 1 ELSE 0,
                   ex |-> IF op = "get_mut" THEN 1 ELSE 0]

\* C19: when a get, get_mut or into of a cell returns successfully, every
\* other cell's shared count and exclusive borrow are what they were before
\* the call, whatever guards the getters took on them meanwhile; the only
\* guard added is the one returned (a Ref, a RefMut, or none for into).
C19_NoGuardOutlivesGetter ==
    \A c \in Cells : \A op \in {"get", "get_mut", "into"} :
        ReturnedOk(op, c) =>
            /\ shared = [pre.shared EXCEPT ![c] = @ + GuardGiven(op).sh]
            /\ excl = [pre.excl EXCEPT ![c] = @ + GuardGiven(op).ex]

\* C19 witness: a get_mut of c whose getter evaluated b's, both having taken
\* Refs on a and c's one on b, returned with the caller's Ref on a as the only
\* other guard.
C19_Witness ==
    /\ ReturnedOk("get_mut", "c") /\ last.owns["b"] # 0 /\ last.owns["c"] # 0
    /\ pre.shared["a"] = 1 /\ shared["a"] = 1 /\ shared["b"] = 0
    /\ excl["c"] = 1

\* C20: a cell with a guard alive, the caller's or a getter block's, is
\* Filled: no guard views an Empty or a moved cell.
C20_GuardsOnFilledOnly ==
    \A c \in Cells :
        /\ (shared[c] > 0 \/ excl[c] > 0) => (IsSome(slot[c]) /\ ~moved[c])
        /\ \A n \in 1..Len(stack) :
              HoldsRef(stack[n], c) => (IsSome(slot[c]) /\ shared[c] >= 1)

\* C20 witness: b's getter, evaluated inside c's, holds a Ref on a, as c's
\* getter and the caller do, while b and c are still Empty.
C20_Witness ==
    /\ Len(stack) = 2 /\ stack[2].cell = "b" /\ stack[2].pc = "getter"
    /\ HoldsRef(stack[2], "a") /\ HoldsRef(stack[1], "a")
    /\ shared["a"] = 3 /\ slot["b"] = None /\ slot["c"] = None
    /\ IsSome(slot["a"])
====
